---- MODULE Spec2Model ----
(***************************************************************************)
(* tower-grpc-web (src/tower-grpc-web/src/lib.rs): the Server and Client   *)
(* adapters around an inner tower::Service, their futures, and the header  *)
(* rewriting functions.                                                    *)
(*                                                                         *)
(* Header values are modelled as sequences of tokens, so that              *)
(* str::starts_with and str::replace are computed on them:                 *)
(*   "application/grpc-web+proto" is <<"application/grpc","-web","+proto">>*)
(* The marker "application/grpc-web" is the two-token sequence             *)
(* <<"application/grpc","-web">>.                                          *)
(***************************************************************************)
EXTENDS Naturals, Sequences, FiniteSets, TLC

VARIABLES lastReady, srv, cliPc, cf, rw, dec, builder, calls

vars == <<lastReady, srv, cliPc, cf, rw, dec, builder, calls>>

---------------------------------------------------------------------------
(* Bounds *)

MaxFrames == 2

MaxCtLen == 3

---------------------------------------------------------------------------
(* Strings as token sequences *)

GRPC == "application/grpc"

WEB == "-web"

NonAscii == "<non-ascii byte>"

Tokens == {GRPC, WEB, "+proto", "+text", "-text", NonAscii}

Marker == <<GRPC, WEB>>

Native == <<GRPC>>

\* str::starts_with
StartsWith(s, p) ==
  /\ Len(s) >= Len(p)
  /\ SubSeq(s, 1, Len(p)) = p

\* str::replace: every non-overlapping match, left to right
RECURSIVE Replace(_, _, _)
Replace(s, from, to) ==
  IF Len(s) = 0 THEN <<>>
  ELSE IF StartsWith(s, from)
       THEN to \o Replace(SubSeq(s, Len(from) + 1, Len(s)), from, to)
       ELSE <<Head(s)>> \o Replace(Tail(s), from, to)

\* HeaderValue::to_str succeeds only on visible ASCII
to_str_ok(v) == \A i \in 1..Len(v) : v[i] # NonAscii

RECURSIVE StringsUpTo(_)
StringsUpTo(n) ==
  IF n = 0 THEN {<<>>}
  ELSE LET shorter == StringsUpTo(n - 1)
       IN shorter \cup {Append(s, t) : s \in {x \in shorter : Len(x) = n - 1}, t \in Tokens}

---------------------------------------------------------------------------
(* Values *)

NoValue == [none |-> TRUE]

\* the value of an empty block
UnitValue == [unit |-> TRUE]

\* unimplemented!() and Option/Result::unwrap on None/Err
Panicked(msg) == [panic |-> msg]

IsPanic(x) == "panic" \in DOMAIN x

IsRequest(x) == "method" \in DOMAIN x

IsResponse(x) == "trailers" \in DOMAIN x

NoRequest == [none |-> TRUE]

Payloads == {"m1", "m2"}

MessageFrame(p) == [kind |-> "Message", payload |-> p]

RECURSIVE BodiesUpTo(_)
BodiesUpTo(n) ==
  IF n = 0 THEN {<<>>}
  ELSE LET shorter == BodiesUpTo(n - 1)
       IN shorter \cup {Append(b, MessageFrame(p)) : b \in {x \in shorter : Len(x) = n - 1}, p \in Payloads}

\* content-type values a caller of the Server sends
CallContentTypes ==
  { <<GRPC>>, <<GRPC, "+proto">>,
    <<GRPC, WEB>>, <<GRPC, WEB, "+proto">>, <<GRPC, WEB, "-text">>,
    <<GRPC, WEB, WEB>>, <<GRPC, WEB, NonAscii>> }

\* the content-type entry of a HeaderMap: the values stored under the name
CallContentTypeEntries ==
  {<<>>} \cup {<<v>> : v \in CallContentTypes} \cup {<< <<GRPC, WEB>>, <<GRPC>> >>}

Requests ==
  [method : {"POST", "GET", "OPTIONS"},
   version : {"HTTP_11", "HTTP_2"},
   uri : {"/pkg.Svc/Method", "/health"},
   ct : CallContentTypeEntries,
   xgw : BOOLEAN,
   acrm : BOOLEAN,
   body : {<<>>, <<MessageFrame("m1")>>}]

\* the native gRPC requests a caller of the Client sends
ClientRequests ==
  [method : {"POST"},
   version : {"HTTP_2"},
   uri : {"/pkg.Svc/Method"},
   ct : { <<Native>>, << <<GRPC, "+proto">> >> },
   xgw : {FALSE},
   acrm : {FALSE},
   body : {<<MessageFrame("m1")>>}]

Responses ==
  [ct : { <<Native>> },
   body : BodiesUpTo(MaxFrames),
   trailers : [grpc_status : {0, 2}]]

TrailerFrame(status) == [kind |-> "Trailer", payload |-> status]

WebFrames ==
  {MessageFrame(p) : p \in Payloads} \cup {TrailerFrame("grpc-status: 0\\r\\n")}

RECURSIVE WebBodiesUpTo(_)
WebBodiesUpTo(n) ==
  IF n = 0 THEN {<<>>}
  ELSE LET shorter == WebBodiesUpTo(n - 1)
       IN shorter \cup {Append(b, f) : b \in {x \in shorter : Len(x) = n - 1}, f \in WebFrames}

\* the gRPC-Web responses the transport under the Client yields
WebResponses ==
  [ct : { << <<GRPC, WEB>> >>, << <<GRPC, WEB, "+proto">> >> },
   body : WebBodiesUpTo(MaxFrames),
   trailers : {[none |-> TRUE]}]

Ready(v) == [tag |-> "Ready", value |-> v]

NotReady == [tag |-> "NotReady", value |-> NoValue]

Err(e) == [tag |-> "Err", value |-> [error |-> e]]

NoOutcome == [tag |-> "None", value |-> NoValue]

\* what polling the inner future can yield
InnerOutcomes == {Ready(r) : r \in Responses} \cup {NotReady, Err("inner")}

TransportOutcomes == {Ready(r) : r \in WebResponses} \cup {NotReady, Err("connection closed")}

ReadyResults == {"Ready", "NotReady", "Err"}

---------------------------------------------------------------------------
(* The free functions of lib.rs *)

\* variant: the prefix tested is "application/grpc"
is_grpc_web_request_prefix_grpc(request) ==
  /\ request.method = "POST"
  /\ Len(request.ct) > 0
  /\ to_str_ok(request.ct[1])
  /\ StartsWith(request.ct[1], Native)

\* variant: the method is not tested
is_grpc_web_request_any_method(request) ==
  /\ Len(request.ct) > 0
  /\ to_str_ok(request.ct[1])
  /\ StartsWith(request.ct[1], Marker)

\* headers().get returns the first value stored under content-type
is_grpc_web_request(request) ==
  /\ request.method = "POST"
  /\ Len(request.ct) > 0
  /\ to_str_ok(request.ct[1])
  /\ StartsWith(request.ct[1], Marker)

request_from_grpc_to_web(request) == Panicked("not yet implemented")

\* the body is an empty block: no header is rewritten, no frame is appended
response_from_grpc_to_web(response) == UnitValue

\* variant: the Occupied arm inserts the static value as the Vacant arm does
request_from_web_to_grpc_drop_suffix(request) ==
  [request EXCEPT !.version = "HTTP_2", !.ct = <<Native>>]

\* Entry::insert on an occupied entry leaves the single new value
request_from_web_to_grpc(request) ==
  IF Len(request.ct) > 0
  THEN IF to_str_ok(request.ct[1])
       THEN [request EXCEPT !.version = "HTTP_2",
                            !.ct = <<Replace(request.ct[1], Marker, Native)>>]
       ELSE Panicked("called Result::unwrap() on an Err value")
  ELSE [request EXCEPT !.version = "HTTP_2", !.ct = <<Native>>]

response_from_web_to_grpc(request) == Panicked("not yet implemented")

---------------------------------------------------------------------------
(* Server *)

ServerIdle ==
  [pc |-> "Start", req |-> NoRequest, variant |-> "None", fwd |-> NoRequest,
   innerOut |-> NoOutcome, out |-> NoOutcome]

\* variant: readiness reported without asking the inner service
Server_poll_ready_always_ready(inner) == "Ready"

Server_poll_ready_result(inner) == inner

\* inner: what self.0.poll_ready() returns at this call
Server_poll_ready(inner) ==
  /\ lastReady' = [who |-> "Server", result |-> Server_poll_ready_result(inner),
                   inner |-> inner]
  /\ UNCHANGED <<srv, cliPc, cf, rw, dec, builder, calls>>

\* the ServerFuture that call returns; fwd is the request given to self.0.call
NewServerFuture(req) ==
  IF is_grpc_web_request(req)
  THEN [pc |-> "Pending", req |-> req, variant |-> "GrpcWeb",
        fwd |-> request_from_web_to_grpc(req),
        innerOut |-> NoOutcome, out |-> NoOutcome]
  ELSE [pc |-> "Pending", req |-> req, variant |-> "Grpc",
        fwd |-> req,
        innerOut |-> NoOutcome, out |-> NoOutcome]

Server_call(req) ==
  /\ srv.pc = "Start"
  /\ srv' = NewServerFuture(req)
  /\ UNCHANGED <<lastReady, cliPc, cf, rw, dec, builder, calls>>

\* variant: the conversion is applied in both arms
ServerFuture_poll_result_converts_always(variant, o) ==
  IF o.tag = "Ready" THEN Ready(response_from_grpc_to_web(o.value)) ELSE o

ServerFuture_poll_result(variant, o) ==
  IF variant = "GrpcWeb"
  THEN IF o.tag = "Ready" THEN Ready(response_from_grpc_to_web(o.value)) ELSE o
  ELSE o

\* the future after one poll in which the inner future yields o
PolledServerFuture(f, o) ==
  [f EXCEPT !.innerOut = o,
            !.out = ServerFuture_poll_result(f.variant, o),
            !.pc = IF o.tag = "NotReady" THEN "Pending" ELSE "Completed"]

ServerFuture_poll(o) ==
  /\ srv.pc = "Pending"
  /\ srv' = PolledServerFuture(srv, o)
  /\ UNCHANGED <<lastReady, cliPc, cf, rw, dec, builder, calls>>

ServerFuture_drop ==
  /\ srv.pc \in {"Pending", "Completed"}
  /\ srv' = ServerIdle
  /\ UNCHANGED <<lastReady, cliPc, cf, rw, dec, builder, calls>>

---------------------------------------------------------------------------
(* Client *)

ClientFutureIdle == [pc |-> "None", innerOut |-> NoOutcome, out |-> NoOutcome]

Client_poll_ready_result(inner) == inner

Client_poll_ready(inner) ==
  /\ lastReady' = [who |-> "Client", result |-> Client_poll_ready_result(inner),
                   inner |-> inner]
  /\ UNCHANGED <<srv, cliPc, cf, rw, dec, builder, calls>>

Client_call(req) ==
  /\ cliPc = "Start"
  /\ LET web == request_from_grpc_to_web(req)
     IN IF IsPanic(web)
        THEN /\ cliPc' = "Panicked"
             /\ cf' = cf
        ELSE /\ cliPc' = "Called"
             /\ cf' = [pc |-> "Pending", innerOut |-> NoOutcome, out |-> NoOutcome]
  /\ UNCHANGED <<lastReady, srv, rw, dec, builder, calls>>

\* a panic unwinds out of poll: no Poll value is returned
Unwound(p) == [tag |-> "Panic", value |-> p]

ClientFuture_poll_result(o) ==
  IF o.tag = "Ready"
  THEN LET r == response_from_web_to_grpc(o.value)
       IN IF IsPanic(r) THEN Unwound(r) ELSE Ready(r)
  ELSE o

ClientFuture_poll(o) ==
  /\ cf.pc = "Pending"
  /\ LET res == ClientFuture_poll_result(o)
     IN cf' = [pc |-> IF o.tag = "NotReady" THEN "Pending"
                      ELSE IF res.tag = "Panic" THEN "Panicked"
                      ELSE "Completed",
               innerOut |-> o,
               out |-> res]
  /\ UNCHANGED <<lastReady, srv, cliPc, rw, dec, builder, calls>>

---------------------------------------------------------------------------
(* Values of the variables a specification leaves alone *)

CodecIdle == [mode |-> "None"]

BuilderIdle == [pc |-> "None"]

NoCalls == <<>>

---------------------------------------------------------------------------
(* Specification of the two adapters as services *)

RewriteIdle == [pc |-> "None", orig |-> NoRequest, cur |-> NoRequest]

Init ==
  /\ dec = CodecIdle
  /\ builder = BuilderIdle
  /\ calls = NoCalls
  /\ lastReady = [who |-> "None", result |-> "None", inner |-> "None"]
  /\ srv = ServerIdle
  /\ cliPc = "Start"
  /\ cf = ClientFutureIdle
  /\ rw = RewriteIdle

Next ==
  \/ \E r \in ReadyResults : Server_poll_ready(r)
  \/ \E req \in Requests : Server_call(req)
  \/ \E o \in InnerOutcomes : ServerFuture_poll(o)
  \/ ServerFuture_drop
  \/ \E r \in ReadyResults : Client_poll_ready(r)

Spec == Init /\ [][Next]_vars

---------------------------------------------------------------------------
(* Specification of the Client adapter and of a ClientFuture around a      *)
(* transport future.  Client::call panics in request_from_grpc_to_web      *)
(* before it builds a ClientFuture, so the future polled here is the one   *)
(* the type ClientFuture<F> wraps, for any transport future F.             *)

InitClient ==
  /\ dec = CodecIdle
  /\ builder = BuilderIdle
  /\ calls = NoCalls
  /\ lastReady = [who |-> "None", result |-> "None", inner |-> "None"]
  /\ srv = ServerIdle
  /\ cliPc = "Start"
  /\ cf = [pc |-> "Pending", innerOut |-> NoOutcome, out |-> NoOutcome]
  /\ rw = RewriteIdle

NextClient ==
  \/ \E r \in ReadyResults : Client_poll_ready(r)
  \/ \E req \in ClientRequests : Client_call(req)
  \/ \E o \in TransportOutcomes : ClientFuture_poll(o)

SpecClient == InitClient /\ [][NextClient]_vars

---------------------------------------------------------------------------
(* Specification of the request rewriting functions on their own *)

RewriteContentTypeEntries ==
  {<<>>} \cup {<<v>> : v \in StringsUpTo(MaxCtLen) \ {<<>>}}
         \cup {<<v, Native>> : v \in CallContentTypes}

RewriteRequests ==
  [method : {"POST", "GET"},
   version : {"HTTP_11", "HTTP_2"},
   uri : {"/pkg.Svc/Method"},
   ct : RewriteContentTypeEntries,
   xgw : {TRUE},
   acrm : {FALSE},
   body : {<<MessageFrame("m1")>>}]

InitRewrite ==
  /\ dec = CodecIdle
  /\ builder = BuilderIdle
  /\ calls = NoCalls
  /\ lastReady = [who |-> "None", result |-> "None", inner |-> "None"]
  /\ srv = ServerIdle
  /\ cliPc = "Start"
  /\ cf = ClientFutureIdle
  /\ \E r \in RewriteRequests : rw = [pc |-> "Input", orig |-> r, cur |-> r]

ApplyWebToGrpc ==
  /\ rw.pc = "Input"
  /\ rw' = [rw EXCEPT !.pc = "Native", !.cur = request_from_web_to_grpc(rw.orig)]
  /\ UNCHANGED <<lastReady, srv, cliPc, cf, dec, builder, calls>>

ApplyGrpcToWeb ==
  /\ rw.pc = "Native"
  /\ IsRequest(rw.cur)
  /\ rw' = [rw EXCEPT !.pc = "Back", !.cur = request_from_grpc_to_web(rw.cur)]
  /\ UNCHANGED <<lastReady, srv, cliPc, cf, dec, builder, calls>>

NextRewrite ==
  \/ ApplyWebToGrpc
  \/ ApplyGrpcToWeb

SpecRewrite == InitRewrite /\ [][NextRewrite]_vars

---------------------------------------------------------------------------
(* Frame Codec.  lib.rs has no frame code (response_from_grpc_to_web is    *)
(* empty, response_from_web_to_grpc is unimplemented!()), so the codec is  *)
(* the one the design describes: [flag:1][length:4 BE][payload], flag 0x00 *)
(* Message, 0x80 Trailer, and base64 in 3-byte / 4-character groups.       *)
(* Bytes are naturals below 256, base64 characters are their 6-bit values  *)
(* and 64 stands for the pad character.                                    *)

MaxChunk == 3

MaxMessageSize == 24

FlagMessage == 0

FlagTrailer == 128

B64Pad == 64

BE32(n) ==
  << (n \div 16777216) % 256, (n \div 65536) % 256, (n \div 256) % 256, n % 256 >>

FromBE32(b) == b[1] * 16777216 + b[2] * 65536 + b[3] * 256 + b[4]

\* "grpc-status", "0", "x", "y" and the separators ": " and "\r\n" in ASCII
NameGrpcStatus == <<103, 114, 112, 99, 45, 115, 116, 97, 116, 117, 115>>

ColonSpace == <<58, 32>>

CrLf == <<13, 10>>

TrailerSets ==
  { << [name |-> NameGrpcStatus, value |-> <<48>>] >>,
    << [name |-> NameGrpcStatus, value |-> <<48>>], [name |-> <<120>>, value |-> <<121>>] >> }

RECURSIVE SerializeTrailers(_)
SerializeTrailers(ts) ==
  IF Len(ts) = 0 THEN <<>>
  ELSE Head(ts).name \o ColonSpace \o Head(ts).value \o CrLf \o SerializeTrailers(Tail(ts))

encode_frame(flag, payload) == <<flag>> \o BE32(Len(payload)) \o payload

encode_message(payload) == encode_frame(FlagMessage, payload)

encode_trailer(trailer_set) == encode_frame(FlagTrailer, SerializeTrailers(trailer_set))

DecodeResult(tag, kind, payload, consumed) ==
  [tag |-> tag, kind |-> kind, payload |-> payload, consumed |-> consumed]

\* variant: a returned frame's payload is left in the buffer
decode_next_frame_keeps_payload(buffer) ==
  IF Len(buffer) < 5 THEN DecodeResult("NeedMoreData", "None", <<>>, 0)
  ELSE IF buffer[1] \notin {FlagMessage, FlagTrailer}
       THEN DecodeResult("FramingError", "None", <<>>, 0)
  ELSE LET n == FromBE32(SubSeq(buffer, 2, 5))
       IN IF n > MaxMessageSize THEN DecodeResult("MessageTooLarge", "None", <<>>, 0)
          ELSE IF Len(buffer) < 5 + n THEN DecodeResult("NeedMoreData", "None", <<>>, 0)
          ELSE DecodeResult("Frame",
                            IF buffer[1] = FlagTrailer THEN "Trailer" ELSE "Message",
                            SubSeq(buffer, 6, 5 + n), 5)

\* variant: the length is read little-endian
decode_next_frame_little_endian(buffer) ==
  IF Len(buffer) < 5 THEN DecodeResult("NeedMoreData", "None", <<>>, 0)
  ELSE IF buffer[1] \notin {FlagMessage, FlagTrailer}
       THEN DecodeResult("FramingError", "None", <<>>, 0)
  ELSE LET n == FromBE32(<<buffer[5], buffer[4], buffer[3], buffer[2]>>)
       IN IF n > MaxMessageSize THEN DecodeResult("MessageTooLarge", "None", <<>>, 0)
          ELSE IF Len(buffer) < 5 + n THEN DecodeResult("NeedMoreData", "None", <<>>, 0)
          ELSE DecodeResult("Frame",
                            IF buffer[1] = FlagTrailer THEN "Trailer" ELSE "Message",
                            SubSeq(buffer, 6, 5 + n), 5 + n)

decode_next_frame(buffer) ==
  IF Len(buffer) < 5 THEN DecodeResult("NeedMoreData", "None", <<>>, 0)
  ELSE IF buffer[1] \notin {FlagMessage, FlagTrailer}
       THEN DecodeResult("FramingError", "None", <<>>, 0)
  ELSE LET n == FromBE32(SubSeq(buffer, 2, 5))
       IN IF n > MaxMessageSize THEN DecodeResult("MessageTooLarge", "None", <<>>, 0)
          ELSE IF Len(buffer) < 5 + n THEN DecodeResult("NeedMoreData", "None", <<>>, 0)
          ELSE DecodeResult("Frame",
                            IF buffer[1] = FlagTrailer THEN "Trailer" ELSE "Message",
                            SubSeq(buffer, 6, 5 + n), 5 + n)

\* header names are case-insensitive: upper-case ASCII is folded
LowerByte(b) == IF b >= 65 /\ b <= 90 THEN b + 32 ELSE b

LowerBytes(bs) == [i \in 1..Len(bs) |-> LowerByte(bs[i])]

\* index of the first occurrence of the two-byte separator, 0 when absent
RECURSIVE FindPair(_, _, _)
FindPair(bs, sep, from) ==
  IF from + 1 > Len(bs) THEN 0
  ELSE IF bs[from] = sep[1] /\ bs[from + 1] = sep[2] THEN from
  ELSE FindPair(bs, sep, from + 1)

ParseTrailerLine(line) ==
  LET c == FindPair(line, ColonSpace, 1)
  IN IF c = 0 THEN [name |-> LowerBytes(line), value |-> <<>>]
     ELSE [name |-> LowerBytes(SubSeq(line, 1, c - 1)),
           value |-> SubSeq(line, c + 2, Len(line))]

RECURSIVE decode_trailer(_)
decode_trailer(payload) ==
  LET e == FindPair(payload, CrLf, 1)
  IN IF e = 0 THEN <<>>
     ELSE <<ParseTrailerLine(SubSeq(payload, 1, e - 1))>>
          \o decode_trailer(SubSeq(payload, e + 2, Len(payload)))

\* one group of 1..3 bytes to 4 characters, padded
B64EncodeGroup(b) ==
  LET n == b[1] * 65536 + (IF Len(b) > 1 THEN b[2] * 256 ELSE 0)
                        + (IF Len(b) > 2 THEN b[3] ELSE 0)
  IN << n \div 262144, (n \div 4096) % 64,
        IF Len(b) > 1 THEN (n \div 64) % 64 ELSE B64Pad,
        IF Len(b) > 2 THEN n % 64 ELSE B64Pad >>

RECURSIVE B64Encode(_)
B64Encode(bytes) ==
  IF Len(bytes) = 0 THEN <<>>
  ELSE IF Len(bytes) <= 3 THEN B64EncodeGroup(bytes)
  ELSE B64EncodeGroup(SubSeq(bytes, 1, 3)) \o B64Encode(SubSeq(bytes, 4, Len(bytes)))

\* one group of 4 characters to 1..3 bytes
B64DecodeGroup(c) ==
  LET v(x) == IF x = B64Pad THEN 0 ELSE x
      n == v(c[1]) * 262144 + v(c[2]) * 4096 + v(c[3]) * 64 + v(c[4])
      all == << n \div 65536, (n \div 256) % 256, n % 256 >>
  IN IF c[3] = B64Pad THEN SubSeq(all, 1, 1)
     ELSE IF c[4] = B64Pad THEN SubSeq(all, 1, 2)
     ELSE all

RECURSIVE B64DecodeGroups(_)
B64DecodeGroups(chars) ==
  IF Len(chars) < 4 THEN <<>>
  ELSE B64DecodeGroup(SubSeq(chars, 1, 4)) \o B64DecodeGroups(SubSeq(chars, 5, Len(chars)))

\* variant: characters short of a group are dropped at the end of a chunk
Base64Feed_drops_carry(carry, chunk) ==
  LET all == carry \o chunk
      k == (Len(all) \div 4) * 4
  IN [bytes |-> B64DecodeGroups(SubSeq(all, 1, k)), carry |-> <<>>]

\* the decoding adapter: whole groups are decoded, 1..3 characters carried
Base64Feed(carry, chunk) ==
  LET all == carry \o chunk
      k == (Len(all) \div 4) * 4
  IN [bytes |-> B64DecodeGroups(SubSeq(all, 1, k)),
      carry |-> SubSeq(all, k + 1, Len(all))]

\* decoding a whole byte stream at once: the frames up to the first
\* incomplete or malformed one
RECURSIVE DecodeAll(_)
DecodeAll(bytes) ==
  LET r == decode_next_frame(bytes)
  IN IF r.tag = "Frame"
     THEN <<[kind |-> r.kind, payload |-> r.payload]>>
          \o DecodeAll(SubSeq(bytes, r.consumed + 1, Len(bytes)))
     ELSE <<>>

CodecMessages == { <<>>, <<7, 200>> }

\* what a sender encodes: a message payload or a trailer set
CodecItems ==
  {[kind |-> "Message", payload |-> p, trailers |-> <<>>] : p \in CodecMessages}
    \cup {[kind |-> "Trailer", payload |-> <<>>, trailers |-> t] : t \in TrailerSets}

RECURSIVE ItemListsUpTo(_)
ItemListsUpTo(n) ==
  IF n = 0 THEN {<<>>}
  ELSE LET shorter == ItemListsUpTo(n - 1)
       IN shorter \cup {Append(l, i) : l \in {x \in shorter : Len(x) = n - 1}, i \in CodecItems}

RECURSIVE EncodeItems(_)
EncodeItems(items) ==
  IF Len(items) = 0 THEN <<>>
  ELSE (IF Head(items).kind = "Trailer"
        THEN encode_trailer(Head(items).trailers)
        ELSE encode_message(Head(items).payload))
       \o EncodeItems(Tail(items))

\* byte streams that are not a sequence of whole frames
MalformedStreams ==
  { <<1, 0, 0, 0, 0>>,
    <<0, 0, 0, 1, 0, 7>>,
    encode_message(<<7, 200>>) \o <<0, 0, 0, 0, 2, 7>>,
    encode_message(<<7, 200>>) \o <<64, 0, 0>> }

CodecStart(mode, sent, wellformed, raw) ==
  [mode |-> mode, sent |-> sent, wellformed |-> wellformed, raw |-> raw,
   wire |-> IF mode = "text" THEN B64Encode(raw) ELSE raw,
   pos |-> 0, carry |-> <<>>, carried |-> FALSE, fed |-> <<>>, buf |-> <<>>,
   frames |-> <<>>, last |-> "None", before |-> <<>>]

InitCodec ==
  /\ lastReady = [who |-> "None", result |-> "None", inner |-> "None"]
  /\ srv = ServerIdle
  /\ cliPc = "Start"
  /\ cf = ClientFutureIdle
  /\ rw = RewriteIdle
  /\ builder = BuilderIdle
  /\ calls = NoCalls
  /\ \E mode \in {"binary", "text"} :
       \/ \E items \in ItemListsUpTo(MaxFrames) :
            dec = CodecStart(mode, items, TRUE, EncodeItems(items))
       \/ \E raw \in MalformedStreams :
            dec = CodecStart(mode, <<>>, FALSE, raw)

\* k more bytes (characters in text mode) arrive
Codec_receive(k) ==
  /\ dec.pos < Len(dec.wire)
  /\ dec.last \notin {"FramingError", "MessageTooLarge"}
  /\ LET to == IF dec.pos + k > Len(dec.wire) THEN Len(dec.wire) ELSE dec.pos + k
         chunk == SubSeq(dec.wire, dec.pos + 1, to)
         fd == IF dec.mode = "text" THEN Base64Feed(dec.carry, chunk)
               ELSE [bytes |-> chunk, carry |-> <<>>]
     IN dec' = [dec EXCEPT !.pos = to,
                           !.carry = fd.carry,
                           !.carried = dec.carried \/ Len(fd.carry) > 0,
                           !.fed = dec.fed \o fd.bytes,
                           !.buf = dec.buf \o fd.bytes,
                           !.last = "None",
                           !.before = <<>>]
  /\ UNCHANGED <<lastReady, srv, cliPc, cf, rw, builder, calls>>

\* one call of decode_next_frame on the buffered bytes
Codec_decode ==
  /\ dec.last \notin {"FramingError", "MessageTooLarge"}
  /\ LET r == decode_next_frame(dec.buf)
     IN dec' = [dec EXCEPT !.last = r.tag,
                           !.before = dec.buf,
                           !.buf = SubSeq(dec.buf, r.consumed + 1, Len(dec.buf)),
                           !.frames = IF r.tag = "Frame"
                                      THEN Append(dec.frames, [kind |-> r.kind, payload |-> r.payload])
                                      ELSE dec.frames]
  /\ UNCHANGED <<lastReady, srv, cliPc, cf, rw, builder, calls>>

NextCodec ==
  \/ \E k \in 1..MaxChunk : Codec_receive(k)
  \/ Codec_decode

SpecCodec == InitCodec /\ [][NextCodec]_vars

---------------------------------------------------------------------------
(* ServerBuilder and the Options a Server is built with.  Option<T> is a   *)
(* sequence: <<>> is None, <<v>> is Some(v).  An origin filter is the set  *)
(* of Origin values its closure accepts.                                   *)

ServerBuilder_new ==
  [allowed_request_headers |-> <<>>,
   cors_for_registered_endpoints_only |-> TRUE,
   origin_filter |-> <<>>]

Origins == {"https://example.com", "https://other.test"}

OriginFilters == { {"https://example.com"} }

HeaderLists == { {}, {"x-user", "x-other"} }

ServerBuilder_origin_filter(value) ==
  /\ builder.pc = "Building"
  /\ builder' = [builder EXCEPT !.options.origin_filter = <<value>>]
  /\ UNCHANGED <<lastReady, srv, cliPc, cf, rw, dec, calls>>

ServerBuilder_cors_for_registered_endpoints_only(value) ==
  /\ builder.pc = "Building"
  /\ builder' = [builder EXCEPT !.options.cors_for_registered_endpoints_only = value]
  /\ UNCHANGED <<lastReady, srv, cliPc, cf, rw, dec, calls>>

ServerBuilder_allowed_request_headers(value) ==
  /\ builder.pc = "Building"
  /\ builder' = [builder EXCEPT !.options.allowed_request_headers = <<value>>]
  /\ UNCHANGED <<lastReady, srv, cliPc, cf, rw, dec, calls>>

\* Server(service, self.0)
ServerBuilder_build ==
  /\ builder.pc = "Building"
  /\ builder' = [builder EXCEPT !.pc = "Built"]
  /\ UNCHANGED <<lastReady, srv, cliPc, cf, rw, dec, calls>>

\* pre-flight requests of a browser and other OPTIONS requests
CorsRequests ==
  [method : {"OPTIONS"},
   version : {"HTTP_11"},
   uri : {"/pkg.Svc/Method", "/health"},
   ct : {<<>>},
   xgw : {FALSE},
   acrm : {TRUE},
   body : {<<>>},
   origin : Origins,
   acrh : { {}, {"x-user", "x-grpc-web"} }]

\* what the inner service answers: it may or may not know about CORS
CorsResponses ==
  [ct : { <<>>, <<Native>> },
   body : {<<>>, <<MessageFrame("m1")>>},
   trailers : [grpc_status : {0, 2}],
   acao : { <<>>, <<"*">> },
   acah : { {}, {"x-user", "x-grpc-web"} }]

CorsInnerOutcomes == {Ready(r) : r \in CorsResponses} \cup {NotReady, Err("inner")}

\* a call on the Server that build returned
Built_Server_call(req) ==
  /\ builder.pc = "Built"
  /\ Server_call(req)

InitCors ==
  /\ lastReady = [who |-> "None", result |-> "None", inner |-> "None"]
  /\ srv = ServerIdle
  /\ cliPc = "Start"
  /\ cf = ClientFutureIdle
  /\ rw = RewriteIdle
  /\ dec = CodecIdle
  /\ calls = NoCalls
  /\ builder = [pc |-> "Building", options |-> ServerBuilder_new]

NextCors ==
  \/ \E f \in OriginFilters : ServerBuilder_origin_filter(f)
  \/ \E b \in BOOLEAN : ServerBuilder_cors_for_registered_endpoints_only(b)
  \/ \E v \in HeaderLists : ServerBuilder_allowed_request_headers(v)
  \/ ServerBuilder_build
  \/ \E req \in CorsRequests : Built_Server_call(req)
  \/ \E o \in CorsInnerOutcomes : ServerFuture_poll(o)
  \/ ServerFuture_drop

SpecCors == InitCors /\ [][NextCors]_vars

---------------------------------------------------------------------------
(* Several calls in flight on one Server, and a ClientFuture.  Each call   *)
(* is the ServerFuture that Server::call returned together with the inner  *)
(* future it owns; Server::call and ServerFuture::poll take &mut self and  *)
(* touch nothing else.                                                     *)

MaxCalls == 2

CallIds == 1..MaxCalls

IdleSlot == [fut |-> ServerIdle, inner |-> "None"]

CallSlot(req) == [fut |-> NewServerFuture(req), inner |-> "Alive"]

\* variant: an inner error ends every call that is pending
PollCalls_error_ends_all(cs, i, o) ==
  IF o.tag = "Err"
  THEN [j \in DOMAIN cs |->
          IF cs[j].fut.pc = "Pending"
          THEN [cs[j] EXCEPT !.fut = PolledServerFuture(cs[j].fut, o)]
          ELSE cs[j]]
  ELSE [cs EXCEPT ![i].fut = PolledServerFuture(cs[i].fut, o)]

\* poll of the i-th future: only that future changes
PollCalls(cs, i, o) == [cs EXCEPT ![i].fut = PolledServerFuture(cs[i].fut, o)]

\* variant: the inner future outlives the ServerFuture
DropSlot_leaks_inner(sl) == [sl EXCEPT !.fut.pc = "Dropped"]

\* dropping ServerFuture(InnerServerFuture::_(f)) drops the f it owns
DropSlot(sl) == [sl EXCEPT !.fut.pc = "Dropped", !.inner = "Dropped"]

ConcurrentRequests ==
  {r \in Requests :
     /\ r.method \in {"POST", "OPTIONS"}
     /\ r.version = "HTTP_11"
     /\ r.uri = "/pkg.Svc/Method"
     /\ r.ct \in { <<Native>>, <<Marker>> }
     /\ ~r.xgw
     /\ r.acrm = (r.method = "OPTIONS")
     /\ r.body = <<MessageFrame("m1")>>}

ConcurrentOutcomes ==
  {NotReady, Err("inner")}
    \cup {Ready(r) : r \in {x \in Responses :
                               x.body = <<MessageFrame("m1")>> /\ x.trailers.grpc_status = 0}}

ConcurrentTransportOutcomes ==
  {NotReady, Err("connection closed")}
    \cup {Ready(r) : r \in {x \in WebResponses :
                               x.body = <<MessageFrame("m1")>> /\ x.ct = <<Marker>>}}

Concurrent_Server_call(i, req) ==
  /\ calls[i].fut.pc \in {"Start", "Dropped"}
  /\ calls' = [calls EXCEPT ![i] = CallSlot(req)]
  /\ UNCHANGED <<lastReady, srv, cliPc, cf, rw, dec, builder>>

Concurrent_ServerFuture_poll(i, o) ==
  /\ calls[i].fut.pc = "Pending"
  /\ calls' = PollCalls(calls, i, o)
  /\ UNCHANGED <<lastReady, srv, cliPc, cf, rw, dec, builder>>

\* the caller cancels, or is done with, the i-th call
Concurrent_ServerFuture_drop(i) ==
  /\ calls[i].fut.pc \in {"Pending", "Completed"}
  /\ calls' = [calls EXCEPT ![i] = DropSlot(calls[i])]
  /\ UNCHANGED <<lastReady, srv, cliPc, cf, rw, dec, builder>>

\* the caller abandons the pending response future
ClientFuture_drop ==
  /\ cf.pc = "Pending"
  /\ cf' = [cf EXCEPT !.pc = "Dropped"]
  /\ UNCHANGED <<lastReady, srv, cliPc, rw, dec, builder, calls>>

InitConcurrent ==
  /\ lastReady = [who |-> "None", result |-> "None", inner |-> "None"]
  /\ srv = ServerIdle
  /\ cliPc = "Start"
  /\ cf = [pc |-> "Pending", innerOut |-> NoOutcome, out |-> NoOutcome]
  /\ rw = RewriteIdle
  /\ dec = CodecIdle
  /\ builder = BuilderIdle
  /\ calls = [i \in CallIds |-> IdleSlot]

NextConcurrent ==
  \/ \E i \in CallIds : \E req \in ConcurrentRequests : Concurrent_Server_call(i, req)
  \/ \E i \in CallIds : \E o \in ConcurrentOutcomes : Concurrent_ServerFuture_poll(i, o)
  \/ \E i \in CallIds : Concurrent_ServerFuture_drop(i)
  \/ \E o \in ConcurrentTransportOutcomes : ClientFuture_poll(o)
  \/ ClientFuture_drop

SpecConcurrent == InitConcurrent /\ [][NextConcurrent]_vars

---------------------------------------------------------------------------
(* Properties *)

\* a CORS pre-flight: OPTIONS carrying Access-Control-Request-Method
IsPreflight(req) == req.method = "OPTIONS" /\ req.acrm

IsMessage(f) == f.kind = "Message"

IsTrailer(f) == f.kind = "Trailer"

EndsWithTrailer(body) == Len(body) > 0 /\ IsTrailer(body[Len(body)])

MessagesOf(body) == SelectSeq(body, IsMessage)

\* every frame after a Trailer frame is a Trailer frame
TrailerLast(body) ==
  \A i \in 1..Len(body) : \A j \in 1..Len(body) :
    (i < j /\ IsTrailer(body[i])) => IsTrailer(body[j])

\* the bytes of decoded frames, back in wire form
RECURSIVE EncodeFrames(_)
EncodeFrames(frames) ==
  IF Len(frames) = 0 THEN <<>>
  ELSE encode_frame(IF Head(frames).kind = "Trailer" THEN FlagTrailer ELSE FlagMessage,
                    Head(frames).payload)
       \o EncodeFrames(Tail(frames))

\* a buffer that does not yet hold one whole frame
Incomplete(buffer) ==
  \/ Len(buffer) < 5
  \/ Len(buffer) < 5 + buffer[2] * 16777216 + buffer[3] * 65536 + buffer[4] * 256 + buffer[5]

\* C11: the decoder is resumable: over any interleaving of decode calls and
\* byte arrivals each complete frame is returned exactly once (the returned
\* frames followed by the buffered bytes are exactly the bytes fed so far, so
\* no byte of a returned frame is read again); a call on fewer than 5 bytes,
\* or on less than the declared payload, returns NeedMoreData and leaves the
\* buffer unchanged.
C11_DecoderResumable ==
  dec.mode # "None" =>
    /\ EncodeFrames(dec.frames) \o dec.buf = dec.fed
    /\ dec.last = "NeedMoreData" => (dec.buf = dec.before /\ Incomplete(dec.before))
    /\ (dec.last # "None" /\ Len(dec.before) < 5) => dec.last = "NeedMoreData"
    /\ (/\ dec.last # "None"
        /\ Len(dec.before) >= 5
        /\ dec.before[1] \in {0, 128}
        /\ dec.before[2] = 0 /\ dec.before[3] = 0 /\ dec.before[4] = 0
        /\ dec.before[5] <= MaxMessageSize
        /\ Len(dec.before) < 5 + dec.before[5]) => dec.last = "NeedMoreData"
    /\ dec.last = "Frame" =>
         dec.before = EncodeFrames(<<dec.frames[Len(dec.frames)]>>) \o dec.buf

C11_Witness ==
  /\ dec.mode = "binary"
  /\ Len(dec.frames) = 1
  /\ dec.last = "NeedMoreData"
  /\ dec.buf = <<0, 0, 0, 0, 2, 7>>
  /\ dec.pos = Len(dec.wire)

\* the raw bytes still to come: the carried characters and the rest of the wire
RawRest ==
  IF dec.mode = "text"
  THEN B64DecodeGroups(dec.carry \o SubSeq(dec.wire, dec.pos + 1, Len(dec.wire)))
  ELSE SubSeq(dec.wire, dec.pos + 1, Len(dec.wire))

\* the frames of the whole stream decoded at once
WholeAtOnce ==
  DecodeAll(IF dec.mode = "text" THEN B64DecodeGroups(dec.wire) ELSE dec.wire)

\* C12: whatever the chunking (one byte at a time included, and in text mode
\* with chunk boundaries inside a base64 4-character group), the frames
\* decoded chunk by chunk are the frames of the whole stream decoded at once.
C12_ChunkIndependence ==
  dec.mode # "None" =>
    IF dec.last \in {"FramingError", "MessageTooLarge"}
    THEN dec.frames = WholeAtOnce
    ELSE dec.frames \o DecodeAll(dec.buf \o RawRest) = WholeAtOnce

C12_Witness ==
  /\ dec.mode = "text"
  /\ dec.carried
  /\ dec.pos = Len(dec.wire)
  /\ Len(dec.frames) = 2
  /\ dec.frames = WholeAtOnce

\* C13: decoding encode_message(P) returns Message(P) and decoding
\* encode_trailer(T) returns a Trailer frame with T's entries; the encoded
\* form is the flag byte (0x00 message, 0x80 trailer), the 4-byte big-endian
\* payload length and the payload.
C13_EncodeDecodeRoundTrip ==
  (dec.mode # "None" /\ dec.wellformed) =>
    /\ dec.last \notin {"FramingError", "MessageTooLarge"}
    /\ Len(dec.frames) <= Len(dec.sent)
    /\ \A i \in 1..Len(dec.frames) :
         /\ dec.frames[i].kind = dec.sent[i].kind
         /\ dec.sent[i].kind = "Message" => dec.frames[i].payload = dec.sent[i].payload
         /\ dec.sent[i].kind = "Trailer" =>
              decode_trailer(dec.frames[i].payload) = dec.sent[i].trailers
    /\ (dec.pos = Len(dec.wire) /\ dec.last = "NeedMoreData") =>
         Len(dec.frames) = Len(dec.sent)
    /\ Len(dec.sent) > 0 =>
         /\ dec.raw[1] = (IF dec.sent[1].kind = "Trailer" THEN 128 ELSE 0)
         /\ dec.raw[2] = 0 /\ dec.raw[3] = 0 /\ dec.raw[4] = 0
         /\ dec.sent[1].kind = "Message" =>
              /\ dec.raw[5] = Len(dec.sent[1].payload)
              /\ SubSeq(dec.raw, 6, 5 + dec.raw[5]) = dec.sent[1].payload

C13_Witness ==
  /\ dec.wellformed
  /\ dec.pos = Len(dec.wire)
  /\ Len(dec.frames) = 2
  /\ dec.frames[1] = [kind |-> "Message", payload |-> <<7, 200>>]
  /\ dec.frames[2].kind = "Trailer"
  /\ Len(decode_trailer(dec.frames[2].payload)) = 2

\* a gRPC method path /package.Service/Method
IsRegisteredPath(uri) == uri = "/pkg.Svc/Method"

\* the CORS decision the design prescribes for a pre-flight under options o
CorsAllowed(o, req) ==
  /\ o.cors_for_registered_endpoints_only => IsRegisteredPath(req.uri)
  /\ Len(o.origin_filter) > 0 => req.origin \in o.origin_filter[1]

ReservedHeaders == {"content-type", "x-grpc-web", "grpc-timeout"}

CompletedPreflight ==
  /\ builder.pc = "Built"
  /\ srv.pc = "Completed"
  /\ IsPreflight(srv.req)

\* C14: with the default configuration a pre-flight OPTIONS request for
\* /pkg.Svc/Method, whatever its Origin, is answered with
\* Access-Control-Allow-Origin: * and no body.
C14_DefaultPreflightAllowed ==
  (/\ CompletedPreflight
   /\ builder.options = ServerBuilder_new
   /\ srv.req.uri = "/pkg.Svc/Method") =>
    /\ srv.out.tag = "Ready"
    /\ srv.out.value.acao = <<"*">>
    /\ srv.out.value.body = <<>>

\* C15: for an allowed pre-flight the echoed Access-Control-Allow-Headers is
\* the requested set when no allow-list is configured, and otherwise the
\* allow-list intersected with the requested set plus the reserved headers.
C15_AllowHeadersEchoed ==
  (CompletedPreflight /\ CorsAllowed(builder.options, srv.req)) =>
    /\ srv.out.tag = "Ready"
    /\ srv.out.value.acah =
         IF Len(builder.options.allowed_request_headers) = 0
         THEN srv.req.acrh
         ELSE (builder.options.allowed_request_headers[1] \cap srv.req.acrh)
                \cup ReservedHeaders

\* C16: a pre-flight that the policy denies (unregistered path under
\* cors_for_registered_endpoints_only, or an Origin the filter rejects) gets
\* an ordinary response with no Access-Control-Allow-* header, never an error.
C16_DeniedPreflightOmitsHeaders ==
  (CompletedPreflight /\ ~CorsAllowed(builder.options, srv.req)) =>
    /\ srv.out.tag = "Ready"
    /\ srv.out.value.acao = <<>>
    /\ srv.out.value.acah = {}

\* C1: a CORS pre-flight request (OPTIONS with Access-Control-Request-Method)
\* is answered by the Server adapter itself: the inner handler's call is
\* never invoked for it and the response it completes with has no body.
C1_PreflightNeverReachesHandler ==
  (srv.pc # "Start" /\ IsPreflight(srv.req)) =>
    /\ srv.fwd = NoRequest
    /\ srv.out.tag = "Ready" => (IsResponse(srv.out.value) /\ srv.out.value.body = <<>>)

\* C2: on the translating (gRPC-Web) path, when the inner handler reports an
\* error after the call was dispatched, the caller observes a response whose
\* body ends with a Trailer frame, never a bare error.
C2_HandlerErrorEndsWithTrailer ==
  (srv.pc = "Completed" /\ srv.variant = "GrpcWeb" /\ srv.innerOut.tag = "Err") =>
    /\ srv.out.tag = "Ready"
    /\ IsResponse(srv.out.value)
    /\ EndsWithTrailer(srv.out.value.body)

\* C3: within one call the message frames the handler produced are delivered
\* in exactly their order (none reordered, duplicated or lost) and no Message
\* frame follows a Trailer frame.
C3_FramesInOrderTrailerLast ==
  (srv.pc = "Completed" /\ srv.innerOut.tag = "Ready") =>
    /\ srv.out.tag = "Ready"
    /\ IsResponse(srv.out.value)
    /\ MessagesOf(srv.out.value.body) = MessagesOf(srv.innerOut.value.body)
    /\ TrailerLast(srv.out.value.body)

\* C4: for a request classified gRPC-Web the returned response has a gRPC-Web
\* content-type and its body is the handler's message frames followed by
\* exactly one Trailer frame built from the handler's trailers.
C4_WebResponseEndsWithOneTrailer ==
  (srv.pc = "Completed" /\ srv.variant = "GrpcWeb" /\ srv.innerOut.tag = "Ready") =>
    /\ srv.out.tag = "Ready"
    /\ IsResponse(srv.out.value)
    /\ Len(srv.out.value.ct) > 0
    /\ StartsWith(srv.out.value.ct[1], Marker)
    /\ Len(srv.out.value.body) = Len(srv.innerOut.value.body) + 1
    /\ SubSeq(srv.out.value.body, 1, Len(srv.innerOut.value.body)) = srv.innerOut.value.body
    /\ IsTrailer(srv.out.value.body[Len(srv.out.value.body)])

\* C5: on the Client adapter, when the inbound response ends before any
\* Trailer frame was decoded, the call outcome is MissingTrailerError.
C5_MissingTrailerError ==
  (/\ cf.pc \in {"Completed", "Panicked"}
   /\ cf.innerOut.tag = "Ready"
   /\ \A i \in 1..Len(cf.innerOut.value.body) : ~IsTrailer(cf.innerOut.value.body[i])) =>
    /\ cf.out.tag = "Err"
    /\ cf.out.value = [error |-> "MissingTrailerError"]

\* a native gRPC request: POST with content-type application/grpc(+proto)
IsNativeGrpc(req) ==
  /\ req.method = "POST"
  /\ req.ct \in { <<Native>>, << <<GRPC, "+proto">> >> }

\* C6: for a native gRPC request the inner handler is handed exactly the
\* request received and every poll returns exactly the inner future's outcome.
C6_NativePassthrough ==
  (srv.pc # "Start" /\ IsNativeGrpc(srv.req)) =>
    /\ srv.fwd = srv.req
    /\ srv.out = srv.innerOut

C6_Witness ==
  /\ srv.pc = "Completed"
  /\ IsNativeGrpc(srv.req)
  /\ srv.fwd = srv.req
  /\ srv.out.tag = "Ready"
  /\ Len(srv.out.value.body) = 2

C8_PollReadyIsInner ==
  lastReady.who # "None" => lastReady.result = lastReady.inner

C8_Witness ==
  /\ lastReady.who = "Server"
  /\ lastReady.inner = "NotReady"
  /\ lastReady.result = "NotReady"

WebSuffixes == {<<>>, <<"+proto">>, <<"+text">>}

\* C9: request_from_web_to_grpc rewrites application/grpc-web followed by an
\* optional codec suffix to application/grpc followed by the same suffix, and
\* inserts application/grpc when the request has no content-type.
C9_WebContentTypeRewritten ==
  rw.pc = "Native" =>
    /\ \A suf \in WebSuffixes :
         (Len(rw.orig.ct) > 0 /\ rw.orig.ct[1] = <<"application/grpc", "-web">> \o suf) =>
           (IsRequest(rw.cur) /\ rw.cur.ct = << <<"application/grpc">> \o suf >>)
    /\ rw.orig.ct = <<>> =>
         (IsRequest(rw.cur) /\ rw.cur.ct = << <<"application/grpc">> >>)

C9_Witness ==
  /\ rw.pc = "Native"
  /\ rw.orig.ct = << <<GRPC, WEB, "+proto">> >>
  /\ rw.cur.ct = << <<GRPC, "+proto">> >>

SupportedWebContentTypes ==
  { <<GRPC, WEB>>, <<GRPC, WEB, "+proto">>, <<GRPC, WEB, "-text">> }

\* C10: rewriting a supported gRPC-Web content-type to native form and then
\* applying the inverse rewrite yields the original content-type.
C10_ContentTypeRoundTrip ==
  (/\ rw.pc = "Back"
   /\ Len(rw.orig.ct) = 1
   /\ rw.orig.ct[1] \in SupportedWebContentTypes) =>
    /\ IsRequest(rw.cur)
    /\ rw.cur.ct = rw.orig.ct

ServerConverted(f) == f.out.tag = "Ready" /\ f.out.value = UnitValue

C19_PollState ==
  /\ \A i \in CallIds :
       LET f == calls[i].fut
       IN f.pc # "Start" =>
            /\ f.innerOut.tag \in {"None", "NotReady", "Err"} => f.out = f.innerOut
            /\ ServerConverted(f) <=> (f.variant = "GrpcWeb" /\ f.innerOut.tag = "Ready")
            /\ f.variant = "Grpc" => f.out = f.innerOut
  /\ cf.innerOut.tag \in {"None", "NotReady", "Err"} => cf.out = cf.innerOut
  /\ cf.out.tag = "Panic" <=> cf.innerOut.tag = "Ready"

\* C19: a poll of a GrpcWeb ServerFuture or of a ClientFuture returns a
\* NotReady or error result of the inner future unchanged and keeps the
\* variant; the response conversion is applied exactly when the inner future
\* yields Ready, and never to the response of a Grpc (passthrough) future.
C19_ConversionOnlyOnReady ==
  [][/\ C19_PollState'
     /\ \A i \in CallIds :
          (calls[i].fut.pc = "Pending" /\ calls'[i].fut.pc \in {"Pending", "Completed"}) =>
            /\ calls'[i].fut.variant = calls[i].fut.variant
            /\ calls'[i].fut.fwd = calls[i].fut.fwd
     /\ (cf.pc = "Pending" /\ cf'.pc \notin {"Pending", "Dropped"}) =>
          cf'.innerOut.tag \in {"Ready", "Err"}]_vars

C19_Witness ==
  /\ calls[1].fut.variant = "GrpcWeb"
  /\ calls[1].fut.pc = "Completed"
  /\ ServerConverted(calls[1].fut)
  /\ calls[2].fut.variant = "Grpc"
  /\ calls[2].fut.pc = "Completed"
  /\ calls[2].fut.out.tag = "Ready"
  /\ ~ServerConverted(calls[2].fut)
  /\ cf.pc = "Panicked"

\* C20: the request forwarded for a call classified gRPC-Web is
\* HTTP/2 and its content-type begins with application/grpc and no longer
\* begins with application/grpc-web, so it would not be classified gRPC-Web
\* again.
C20_ForwardedIsNative ==
  (srv.pc # "Start" /\ srv.variant = "GrpcWeb") =>
    /\ IsRequest(srv.fwd)
    /\ srv.fwd.version = "HTTP_2"
    /\ StartsWith(srv.fwd.ct[1], <<"application/grpc">>)
    /\ ~StartsWith(srv.fwd.ct[1], <<"application/grpc", "-web">>)
    /\ ~is_grpc_web_request(srv.fwd)

====
